---- MODULE Spec2Model ----
(***************************************************************************)
(* The local semantic retrieval subsystem of the content-creation system:  *)
(* the index store kept by SimpleRAGRetriever (tools/rag_retrieval_tool.py)*)
(* and rebuilt by SimpleKnowledgeBaseBuilder (tools/build_knowledge_base.py)*)
(* the retriever's search, the query router (utils/query_router.py) and    *)
(* the query interface rag_retrieval_tool.                                 *)
(*                                                                         *)
(* Python strings are sequences of one-character strings.  Scores are      *)
(* integers in hundredths (0.3 is 30, 1.0 is 100).                         *)
(***************************************************************************)
EXTENDS Integers, Sequences, FiniteSets, TLC

(***************************************************************************)
(* Bounds of the model.                                                    *)
(***************************************************************************)
\* most records the index holds while adds, builds and restarts interleave
MaxChunks == 2
\* most records of the indexes that searches are explored on
MaxIndex == 3
\* most chunks in one add_documents batch
MaxBatch == 2
\* largest n_results / max_results explored
MaxResults == 2
\* most calls of the query interface in one run
MaxQueries == 3
\* the record_rag_result calls that ran before a routing scenario starts
MaxRecords == 23
\* the threads that call record_rag_result
MaxThreads == 2
\* the analyze_query calls of a routing scenario
MaxRouted == 1

(***************************************************************************)
(* Strings.                                                                *)
(***************************************************************************)
UpperLetters ==
    <<"A","B","C","D","E","F","G","H","I","J","K","L","M",
      "N","O","P","Q","R","S","T","U","V","W","X","Y","Z">>

LowerLetters ==
    <<"a","b","c","d","e","f","g","h","i","j","k","l","m",
      "n","o","p","q","r","s","t","u","v","w","x","y","z">>

\* str.lower() on one character
LowerChar(c) ==
    IF \E i \in 1..Len(UpperLetters) : UpperLetters[i] = c
    THEN LowerLetters[CHOOSE i \in 1..Len(UpperLetters) : UpperLetters[i] = c]
    ELSE c

\* str.lower()
Lower(s) ==
    [i \in 1..Len(s) |-> LowerChar(s[i])]

\* Python's  sub in s  on strings
Contains(s, sub) ==
    \E i \in 0..(Len(s) - Len(sub)) : SubSeq(s, i + 1, i + Len(sub)) = sub

IsSpace(c) ==
    c \in {" ", "\t", "\n"}

\* the position where the run that starts at i ends
WordEnd(s, i) ==
    CHOOSE j \in i..Len(s) :
        /\ \A k \in i..j : ~IsSpace(s[k])
        /\ (j = Len(s) \/ IsSpace(s[j + 1]))

\* the positions between lo and hi where a maximal run of non-whitespace
\* characters starts, in increasing order
RECURSIVE WordStartSeq(_, _, _)
WordStartSeq(s, lo, hi) ==
    IF lo > hi THEN <<>>
    ELSE IF lo = hi
         THEN (IF ~IsSpace(s[lo]) /\ (lo = 1 \/ IsSpace(s[lo - 1])) THEN <<lo>> ELSE <<>>)
    ELSE LET mid == (lo + hi) \div 2
         IN  WordStartSeq(s, lo, mid) \o WordStartSeq(s, mid + 1, hi)

\* str.split(): the maximal runs of non-whitespace characters, in order
Split(s) ==
    LET starts == WordStartSeq(s, 1, Len(s))
    IN  [k \in 1..Len(starts) |-> SubSeq(s, starts[k], WordEnd(s, starts[k]))]

\* the elements of a sequence, as a set
Range(seq) ==
    {seq[i] : i \in 1..Len(seq)}

\* seq[:k] for k >= 0
Take(seq, k) ==
    SubSeq(seq, 1, IF k < Len(seq) THEN k ELSE Len(seq))

Min(a, b) ==
    IF a < b THEN a ELSE b

(***************************************************************************)
(* Texts used as inputs.                                                   *)
(***************************************************************************)
\* "Machine learning trains models"
D_ml ==
    <<"M","a","c","h","i","n","e"," ","l","e","a","r","n","i","n","g"," ","t","r","a","i","n","s"," ","m","o","d","e","l","s">>
\* "Marketing strategy and sales"
D_mk ==
    <<"M","a","r","k","e","t","i","n","g"," ","s","t","r","a","t","e","g","y"," ","a","n","d"," ","s","a","l","e","s">>
\* "Deep neural networks"
D_nn ==
    <<"D","e","e","p"," ","n","e","u","r","a","l"," ","n","e","t","w","o","r","k","s">>
\* ""
Q_empty ==
    <<>>
\* "machine learning applications"
Q_ml ==
    <<"m","a","c","h","i","n","e"," ","l","e","a","r","n","i","n","g"," ","a","p","p","l","i","c","a","t","i","o","n","s">>
\* "best restaurants in Boston"
Q_rest ==
    <<"b","e","s","t"," ","r","e","s","t","a","u","r","a","n","t","s"," ","i","n"," ","B","o","s","t","o","n">>
\* "Unknown"
S_Unknown ==
    <<"U","n","k","n","o","w","n">>
\* "General"
S_General ==
    <<"G","e","n","e","r","a","l">>
\* "notes.txt"
S_notes ==
    <<"n","o","t","e","s",".","t","x","t">>
\* "Business"
S_Business ==
    <<"B","u","s","i","n","e","s","s">>

\* "gardening tips"
Q_garden ==
    <<"g","a","r","d","e","n","i","n","g"," ","t","i","p","s">>
\* "marketing strategy"
Q_marketing ==
    <<"m","a","r","k","e","t","i","n","g"," ","s","t","r","a","t","e","g","y">>
\* "scrum teams in nyc"
Q_scrum ==
    <<"s","c","r","u","m"," ","t","e","a","m","s"," ","i","n"," ","n","y","c">>
\* "latest marketing news"
Q_latest ==
    <<"l","a","t","e","s","t"," ","m","a","r","k","e","t","i","n","g"," ","n","e","w","s">>

\* the queries handed to analyze_query
RouterQueries ==
    {Q_rest, Q_garden, Q_marketing, Q_scrum, Q_ml, Q_latest}

\* the queries explored
Queries ==
    {Q_empty, Q_ml, Q_rest}

\* chunk dicts handed to add_documents: one with only 'text', one with
\* every optional key
AddChunkInputs ==
    { [text |-> D_ml],
      [text |-> D_mk, source |-> S_notes, topic |-> S_Business, chunk_id |-> 7] }

\* the batches explored: every sequence of at most MaxBatch chunk dicts
Batches ==
    UNION { [1..n -> AddChunkInputs] : n \in 0..MaxBatch }

\* a chunk dict whose text is the empty string
EmptyTextChunk ==
    [text |-> Q_empty]

(***************************************************************************)
(* SimpleKnowledgeBaseBuilder: text extraction, chunking, topic inference. *)
(***************************************************************************)
\* self.chunk_size
chunk_size == 500
\* self.chunk_overlap
chunk_overlap == 50
\* the least number of words of an emitted chunk
MinChunkWords == 50
\* files whose extracted text is shorter than this are skipped
MinTextLen == 100
\* the characters of a chunk that topic inference reads
TopicPrefixLen == 500

\* s repeated n times
RECURSIVE Repeat(_, _)
Repeat(s, n) ==
    IF n = 0 THEN <<>>
    ELSE IF n = 1 THEN s
    ELSE Repeat(s, n \div 2) \o Repeat(s, n - (n \div 2))

\* ' '.join(words)
RECURSIVE Join(_)
Join(words) ==
    IF words = <<>> THEN <<>>
    ELSE IF Len(words) = 1 THEN Head(words)
    ELSE LET h == Len(words) \div 2
         IN  Join(SubSeq(words, 1, h)) \o <<" ">> \o Join(SubSeq(words, h + 1, Len(words)))

\* re.sub(r'\s+', ' ', text).strip()
NormalizeSpace(text) ==
    Join(Split(text))

\* the topic taxonomy of _infer_topic, in dict order
InferTopics ==
    <<
      \* Artificial Intelligence: ai, artificial intelligence, machine learning, deep learning
      [topic |-> <<"A","r","t","i","f","i","c","i","a","l"," ","I","n","t","e","l","l","i","g","e","n","c","e">>,
       keywords |-> <<
          <<"a","i">>,
          <<"a","r","t","i","f","i","c","i","a","l"," ","i","n","t","e","l","l","i","g","e","n","c","e">>,
          <<"m","a","c","h","i","n","e"," ","l","e","a","r","n","i","n","g">>,
          <<"d","e","e","p"," ","l","e","a","r","n","i","n","g">> >>],
      \* Technology: software, programming, code, algorithm, tech
      [topic |-> <<"T","e","c","h","n","o","l","o","g","y">>,
       keywords |-> <<
          <<"s","o","f","t","w","a","r","e">>,
          <<"p","r","o","g","r","a","m","m","i","n","g">>,
          <<"c","o","d","e">>,
          <<"a","l","g","o","r","i","t","h","m">>,
          <<"t","e","c","h">> >>],
      \* Business: business, marketing, sales, strategy
      [topic |-> <<"B","u","s","i","n","e","s","s">>,
       keywords |-> <<
          <<"b","u","s","i","n","e","s","s">>,
          <<"m","a","r","k","e","t","i","n","g">>,
          <<"s","a","l","e","s">>,
          <<"s","t","r","a","t","e","g","y">> >>],
      \* Health: health, medical, wellness
      [topic |-> <<"H","e","a","l","t","h">>,
       keywords |-> <<
          <<"h","e","a","l","t","h">>,
          <<"m","e","d","i","c","a","l">>,
          <<"w","e","l","l","n","e","s","s">> >>],
      \* Education: education, learning, teaching
      [topic |-> <<"E","d","u","c","a","t","i","o","n">>,
       keywords |-> <<
          <<"e","d","u","c","a","t","i","o","n">>,
          <<"l","e","a","r","n","i","n","g">>,
          <<"t","e","a","c","h","i","n","g">> >>]
    >>

\* a variant that returns the last topic of the taxonomy that matches
InferTopicLastMatch(filename, content) ==
    LET text == Lower(filename \o <<" ">> \o Take(content, TopicPrefixLen))
        hit(t) == \E k \in 1..Len(InferTopics[t].keywords) :
                      Contains(text, InferTopics[t].keywords[k])
    IN  IF \E t \in 1..Len(InferTopics) : hit(t)
        THEN LET last == CHOOSE t \in 1..Len(InferTopics) :
                             hit(t) /\ \A u \in (t + 1)..Len(InferTopics) : ~hit(u)
             IN  InferTopics[last].topic
        ELSE S_General

\* _infer_topic(filename, content)
InferTopic(filename, content) ==
    LET text == Lower(filename \o <<" ">> \o Take(content, TopicPrefixLen))
        hit(t) == \E k \in 1..Len(InferTopics[t].keywords) :
                      Contains(text, InferTopics[t].keywords[k])
    IN  IF \E t \in 1..Len(InferTopics) : hit(t)
        THEN LET first == CHOOSE t \in 1..Len(InferTopics) :
                              hit(t) /\ \A u \in 1..(t - 1) : ~hit(u)
             IN  InferTopics[first].topic
        ELSE S_General

\* a variant whose windows do not overlap
RECURSIVE ChunkWindowsNoOverlap(_, _, _, _)
ChunkWindowsNoOverlap(words, i, chunks, filename) ==
    IF i >= Len(words) THEN chunks
    ELSE LET chunk_words == SubSeq(words, i + 1, Min(i + chunk_size, Len(words)))
             chunk_text == Join(chunk_words)
             emitted == IF Len(Split(chunk_text)) >= MinChunkWords
                        THEN Append(chunks,
                                    [text |-> chunk_text,
                                     source |-> filename,
                                     topic |-> InferTopic(filename, chunk_text),
                                     chunk_id |-> Len(chunks)])
                        ELSE chunks
         IN  ChunkWindowsNoOverlap(words, i + chunk_size, emitted, filename)

\* a variant that keeps the windows of fewer than 50 words
RECURSIVE ChunkWindowsKeepsShort(_, _, _, _)
ChunkWindowsKeepsShort(words, i, chunks, filename) ==
    IF i >= Len(words) THEN chunks
    ELSE LET chunk_words == SubSeq(words, i + 1, Min(i + chunk_size, Len(words)))
             chunk_text == Join(chunk_words)
             emitted == Append(chunks,
                               [text |-> chunk_text,
                                source |-> filename,
                                topic |-> InferTopic(filename, chunk_text),
                                chunk_id |-> Len(chunks)])
         IN  ChunkWindowsKeepsShort(words, i + (chunk_size - chunk_overlap), emitted,
                                    filename)

\* a variant that keeps only the windows of chunk_size words
RECURSIVE ChunkWindowsFullOnly(_, _, _, _)
ChunkWindowsFullOnly(words, i, chunks, filename) ==
    IF i >= Len(words) THEN chunks
    ELSE LET chunk_words == SubSeq(words, i + 1, Min(i + chunk_size, Len(words)))
             chunk_text == Join(chunk_words)
             emitted == IF Len(Split(chunk_text)) >= chunk_size
                        THEN Append(chunks,
                                    [text |-> chunk_text,
                                     source |-> filename,
                                     topic |-> InferTopic(filename, chunk_text),
                                     chunk_id |-> Len(chunks)])
                        ELSE chunks
         IN  ChunkWindowsFullOnly(words, i + (chunk_size - chunk_overlap), emitted,
                                  filename)

\* the loop of _chunk_text from window start i (0-based) on
RECURSIVE ChunkWindows(_, _, _, _)
ChunkWindows(words, i, chunks, filename) ==
    IF i >= Len(words) THEN chunks
    ELSE LET chunk_words == SubSeq(words, i + 1, Min(i + chunk_size, Len(words)))
             chunk_text == Join(chunk_words)
             emitted == IF Len(Split(chunk_text)) >= MinChunkWords
                        THEN Append(chunks,
                                    [text |-> chunk_text,
                                     source |-> filename,
                                     topic |-> InferTopic(filename, chunk_text),
                                     chunk_id |-> Len(chunks)])
                        ELSE chunks
         IN  ChunkWindows(words, i + (chunk_size - chunk_overlap), emitted, filename)

\* _chunk_text(text, file)
ChunkText(text, filename) ==
    ChunkWindows(Split(NormalizeSpace(text)), 0, <<>>, filename)

\* 'machine learning\n '
P_ml ==
    <<"m","a","c","h","i","n","e"," ","l","e","a","r","n","i","n","g","\n"," ">>
\* 'sales  plan\t'
P_sales ==
    <<"s","a","l","e","s"," "," ","p","l","a","n","\t">>
\* 'todo'
T_todo ==
    <<"t","o","d","o">>
\* 'ml_notes.txt'
N_ml ==
    <<"m","l","_","n","o","t","e","s",".","t","x","t">>
\* 'plan.md'
N_sales ==
    <<"p","l","a","n",".","m","d">>
\* 'todo.txt'
N_todo ==
    <<"t","o","d","o",".","t","x","t">>
\* 'scan.txt'
N_scan ==
    <<"s","c","a","n",".","t","x","t">>
\* 'report.pdf'
N_pdf ==
    <<"r","e","p","o","r","t",".","p","d","f">>
\* '.txt'
S_txt ==
    <<".","t","x","t">>
\* '.md'
S_md ==
    <<".","m","d">>
\* '.pdf'
S_pdf ==
    <<".","p","d","f">>
\* '.docx'
S_docx ==
    <<".","d","o","c","x">>

\* the files of the documents directory: name, suffix, the text the file
\* holds, and whether reading or parsing it succeeds
F_ml == [name |-> N_ml, suffix |-> S_txt, text |-> Repeat(P_ml, 25), readable |-> TRUE]
F_sales == [name |-> N_sales, suffix |-> S_md, text |-> Repeat(P_sales, 30), readable |-> TRUE]
F_todo == [name |-> N_todo, suffix |-> S_txt, text |-> T_todo, readable |-> TRUE]
F_scan == [name |-> N_scan, suffix |-> S_txt, text |-> Repeat(P_ml, 25), readable |-> FALSE]
F_pdf == [name |-> N_pdf, suffix |-> S_pdf, text |-> Repeat(P_sales, 30), readable |-> FALSE]

\* the directory listings explored (files come in glob order: txt, md, pdf, docx)
Directories ==
    { <<F_ml>>, <<F_scan, F_todo, F_sales, F_pdf>>, <<F_todo>> }

\* '0' .. '9'
DecimalDigits ==
    <<"0","1","2","3","4","5","6","7","8","9">>

\* str(k), used as the k-th word of a document
RECURSIVE NumWord(_)
NumWord(k) ==
    IF k < 10 THEN <<DecimalDigits[k + 1]>>
    ELSE NumWord(k \div 10) \o <<DecimalDigits[(k % 10) + 1]>>

\* the words str(lo) .. str(hi), each followed by the whitespace sep
RECURSIVE NumberedText(_, _, _)
NumberedText(lo, hi, sep) ==
    IF lo > hi THEN <<>>
    ELSE IF lo = hi THEN NumWord(lo) \o sep
    ELSE LET mid == (lo + hi) \div 2
         IN  NumberedText(lo, mid, sep) \o NumberedText(mid + 1, hi, sep)

\* a readable file of n distinct words: 'w<n><suffix>'
WordsFile(n, suffix, sep) ==
    [name |-> <<"w">> \o NumWord(n) \o suffix, suffix |-> suffix,
     text |-> NumberedText(1, n, sep), readable |-> TRUE]

\* 'locked.txt', which cannot be read, and 'scan.pdf', which cannot be parsed
F_locked == [name |-> <<"l","o","c","k","e","d",".","t","x","t">>, suffix |-> S_txt, text |-> NumberedText(1, 90, <<" ">>), readable |-> FALSE]
F_badpdf == [name |-> <<"s","c","a","n",".","p","d","f">>, suffix |-> S_pdf, text |-> NumberedText(1, 90, <<" ">>), readable |-> FALSE]
\* 'stub.md', too short to be ingested
F_stub == [name |-> <<"s","t","u","b",".","m","d">>, suffix |-> S_md, text |-> T_todo, readable |-> TRUE]

\* a batch with files that fail or are skipped between files that are ingested
BatchDirectory ==
    << WordsFile(60, S_txt, <<" ">>), F_locked, F_stub, WordsFile(70, S_md, <<" ">>),
       F_badpdf, WordsFile(80, S_docx, <<"\n">>) >>

\* the word counts of the one-document directories
DocumentWords ==
    {49, 50, 499, 500, 949, 950, 1000}

\* the directory listings of the builds explored: those above, the batch,
\* and the one-document directories (the longest document with runs of
\* mixed whitespace)
BuildDirectories ==
    Directories \cup {BatchDirectory}
        \cup {<<WordsFile(n, S_txt, IF n = 1000 THEN <<"\n", " ", "\t">> ELSE <<" ">>)>> :
                  n \in DocumentWords}

\* _extract_text(file): what it returns, for a file it does not raise on
ExtractText(file) ==
    IF file.suffix \in {S_txt, S_md} THEN file.text
    ELSE IF file.suffix \in {S_pdf, S_docx}
         THEN (IF file.readable THEN file.text ELSE <<>>)
         ELSE <<>>

\* _extract_text(file) raises: read_text on a .txt or .md file that cannot be read
ExtractRaises(file) ==
    file.suffix \in {S_txt, S_md} /\ ~file.readable

\* a variant that ends the run at the first file whose extraction raises
RECURSIVE CollectChunksAborts(_, _)
CollectChunksAborts(files, all_chunks) ==
    IF files = <<>> THEN all_chunks
    ELSE LET file == Head(files)
         IN  IF ExtractRaises(file)
             THEN all_chunks
             ELSE LET text == ExtractText(file)
                  IN  IF text = <<>> \/ Len(text) < MinTextLen
                      THEN CollectChunksAborts(Tail(files), all_chunks)
                      ELSE CollectChunksAborts(Tail(files),
                                               all_chunks \o ChunkText(text, file.name))

\* the loop of ingest_directory over the files: all_chunks
RECURSIVE CollectChunks(_, _)
CollectChunks(files, all_chunks) ==
    IF files = <<>> THEN all_chunks
    ELSE LET file == Head(files)
         IN  IF ExtractRaises(file)
             THEN CollectChunks(Tail(files), all_chunks)
             ELSE LET text == ExtractText(file)
                  IN  IF text = <<>> \/ Len(text) < MinTextLen
                      THEN CollectChunks(Tail(files), all_chunks)
                      ELSE CollectChunks(Tail(files),
                                         all_chunks \o ChunkText(text, file.name))

\* all_chunks of each directory listing explored
AllChunks ==
    [files \in BuildDirectories |-> CollectChunks(files, <<>>)]

\* the chunk texts the builder produces from F_ml and F_sales
C_ml == NormalizeSpace(F_ml.text)
C_sales == NormalizeSpace(F_sales.text)

(***************************************************************************)
(* The embedding provider: SentenceTransformer('all-MiniLM-L6-v2').  A     *)
(* vector is named by a number; encode() is a deterministic function of    *)
(* the text, and the cosine similarity of two vectors is read from a table *)
(* of sample values, in hundredths.                                        *)
(***************************************************************************)
\* the vectors of the texts the model embeds; 0 stands for any other text
KnownTexts ==
    <<D_ml, D_mk, D_nn, Q_empty, Q_ml, Q_rest, C_ml, C_sales>>

\* embedder.encode([text])[0]
Embed(text) ==
    IF \E i \in 1..Len(KnownTexts) : KnownTexts[i] = text
    THEN CHOOSE i \in 1..Len(KnownTexts) : KnownTexts[i] = text
    ELSE 0

\* embedder.encode(texts)
EncodeAll(texts) ==
    [i \in 1..Len(texts) |-> Embed(texts[i])]

\* sample similarities of the query vectors to the document vectors
SimTable ==
    [q \in {Embed(Q_empty), Embed(Q_ml), Embed(Q_rest)} |->
        CASE q = Embed(Q_empty) ->
                 (Embed(D_ml) :> 5   @@ Embed(D_mk) :> -3 @@ Embed(D_nn) :> 0
                  @@ Embed(C_ml) :> 8 @@ Embed(C_sales) :> 2)
          [] q = Embed(Q_ml) ->
                 (Embed(D_ml) :> 92  @@ Embed(D_mk) :> 25 @@ Embed(D_nn) :> 95
                  @@ Embed(C_ml) :> 95 @@ Embed(C_sales) :> 10)
          [] q = Embed(Q_rest) ->
                 (Embed(D_ml) :> -10 @@ Embed(D_mk) :> 28 @@ Embed(D_nn) :> 12
                  @@ Embed(C_ml) :> -6 @@ Embed(C_sales) :> 33
                  @@ Embed(Q_empty) :> -7)]

\* one entry of _cosine_similarity(query_emb, doc_embs): 1.0 for a vector
\* and itself
CosSim(qv, dv) ==
    IF qv = dv THEN 100
    ELSE IF qv \in DOMAIN SimTable /\ dv \in DOMAIN SimTable[qv]
         THEN SimTable[qv][dv]
         ELSE 0

(***************************************************************************)
(* State.                                                                  *)
(***************************************************************************)
VARIABLES
    embeddings,   \* SimpleRAGRetriever.embeddings: the rows, in order
    metadata,     \* SimpleRAGRetriever.metadata: the records, in order
    embFile,      \* knowledge_base/embeddings.npy: [exists, rows]
    metaFile,     \* knowledge_base/metadata.pkl: [exists, rows]
    addPc,        \* where a running add_documents call stands
    ret,          \* what the last finished retriever call returned or raised
    bPc,          \* where a running build (ingest_directory) stands
    bEmbeddings,  \* SimpleKnowledgeBaseBuilder.embeddings
    bMetadata,    \* SimpleKnowledgeBaseBuilder.metadata
    hitRates,     \* QueryRouter.domain_hit_rates, digits in base 20
    stats,        \* QueryRouter.stats
    toolOut,      \* what the last call of rag_retrieval_tool did and returned
    routed,       \* the last call of analyze_query: the query and what it returned
    rec,          \* each thread's call of record_rag_result: where it stands
    adding,       \* add_documents run beside a search: its chunks and loop position
    srch          \* search run beside an add_documents: its locals

storeVars == <<embeddings, metadata, embFile, metaFile>>
builderVars == <<bPc, bEmbeddings, bMetadata>>
\* what the retriever's methods never touch
routerVars == <<hitRates, stats, toolOut, routed, rec>>
notRetrieverVars == <<bPc, bEmbeddings, bMetadata, hitRates, stats, toolOut, routed, rec>>
vars == <<embeddings, metadata, embFile, metaFile, addPc, ret,
          bPc, bEmbeddings, bMetadata, hitRates, stats, toolOut, routed, rec,
          adding, srch>>

\* a file that does not exist, and a file holding the rows given
NoFile ==
    [exists |-> FALSE, rows |-> <<>>]
FileOf(rows) ==
    [exists |-> TRUE, rows |-> rows]

\* ret: the method, its arguments, whether it returned or raised, and what
RetNone ==
    [op |-> "none", args |-> <<>>, outcome |-> "none", error |-> "", value |-> <<>>]
Returned(op, args, value) ==
    [op |-> op, args |-> args, outcome |-> "return", error |-> "", value |-> value]
Raised(op, args, error) ==
    [op |-> op, args |-> args, outcome |-> "raise", error |-> error, value |-> <<>>]

(***************************************************************************)
(* SimpleRAGRetriever: construction and add_documents.                     *)
(***************************************************************************)
\* __init__: both files are read when both exist, else the index is empty
LoadedEmbeddings ==
    IF embFile.exists /\ metaFile.exists THEN embFile.rows ELSE <<>>

LoadedMetadata ==
    IF embFile.exists /\ metaFile.exists THEN metaFile.rows ELSE <<>>

\* dict.get(key, default)
Get(d, key, default) ==
    IF key \in DOMAIN d THEN d[key] ELSE default

\* the record add_documents builds for a chunk when the index holds n records
MetaOf(chunk, n) ==
    [content |-> chunk.text,
     source |-> Get(chunk, "source", S_Unknown),
     topic |-> Get(chunk, "topic", S_General),
     chunk_id |-> Get(chunk, "chunk_id", n),
     word_count |-> Len(Split(chunk.text))]

\* the loop  for chunk in chunks: self.metadata.append(meta)
RECURSIVE AppendMetadata(_, _)
AppendMetadata(meta, chunks) ==
    IF chunks = <<>> THEN meta
    ELSE AppendMetadata(Append(meta, MetaOf(Head(chunks), Len(meta))), Tail(chunks))

\* a variant that keeps only the new rows
ReplaceEmbeddings(emb, new) ==
    new

\* the rows after  np.vstack([self.embeddings, new_embeddings])
AppendEmbeddings(emb, new) ==
    IF Len(emb) = 0 THEN new ELSE emb \o new

\* a variant that appends the records before it calls the provider
AddDocumentsAppendsFirst(chunks) ==
    /\ addPc = "idle"
    /\ IF chunks = <<>>
       THEN /\ ret' = Returned("add", <<>>, <<>>)
            /\ UNCHANGED <<storeVars, addPc, notRetrieverVars, adding, srch>>
       ELSE /\ Len(metadata) + Len(chunks) <= MaxChunks
            /\ Len(embeddings) + Len(chunks) <= MaxChunks
            /\ metadata' = AppendMetadata(metadata, chunks)
            /\ \/ /\ embeddings' = AppendEmbeddings(embeddings,
                                      EncodeAll([i \in 1..Len(chunks) |-> chunks[i].text]))
                  /\ embFile' = FileOf(embeddings')
                  /\ addPc' = "save_metadata"
                  /\ ret' = RetNone
                  /\ UNCHANGED <<metaFile, notRetrieverVars, adding, srch>>
               \/ /\ ret' = Raised("add", <<>>, "ProviderFailure")
                  /\ UNCHANGED <<embeddings, embFile, metaFile, addPc, notRetrieverVars, adding, srch>>

\* add_documents up to the first write of _save:  an empty batch returns at
\* once; the provider returns a vector per text, or raises before anything
\* is changed; then both arrays are appended to and the embeddings file is
\* written (np.save)
AddDocuments(chunks) ==
    /\ addPc = "idle"
    /\ IF chunks = <<>>
       THEN /\ ret' = Returned("add", <<>>, <<>>)
            /\ UNCHANGED <<storeVars, addPc, notRetrieverVars, adding, srch>>
       ELSE /\ Len(metadata) + Len(chunks) <= MaxChunks
            /\ Len(embeddings) + Len(chunks) <= MaxChunks
            /\ \/ /\ embeddings' = AppendEmbeddings(embeddings,
                                      EncodeAll([i \in 1..Len(chunks) |-> chunks[i].text]))
                  /\ metadata' = AppendMetadata(metadata, chunks)
                  /\ embFile' = FileOf(embeddings')
                  /\ addPc' = "save_metadata"
                  /\ ret' = RetNone
                  /\ UNCHANGED <<metaFile, notRetrieverVars, adding, srch>>
               \/ /\ ret' = Raised("add", <<>>, "ProviderFailure")
                  /\ UNCHANGED <<storeVars, addPc, notRetrieverVars, adding, srch>>

\* _save, second write: pickle.dump(self.metadata, f); add_documents returns
AddSaveMetadata ==
    /\ addPc = "save_metadata"
    /\ metaFile' = FileOf(metadata)
    /\ addPc' = "idle"
    /\ ret' = Returned("add", <<>>, <<>>)
    /\ UNCHANGED <<embeddings, metadata, embFile, notRetrieverVars, adding, srch>>

\* _save, second write: open(metadata_path, 'wb') raises; nothing catches it
AddSaveMetadataFails ==
    /\ addPc = "save_metadata"
    /\ addPc' = "idle"
    /\ ret' = Raised("add", <<>>, "OSError")
    /\ UNCHANGED <<storeVars, notRetrieverVars, adding, srch>>

\* the process ends, at any point, and a new one constructs the retriever
\* (get_retriever -> SimpleRAGRetriever.__init__)
Restart ==
    /\ embeddings' = LoadedEmbeddings
    /\ metadata' = LoadedMetadata
    /\ addPc' = "idle"
    /\ ret' = RetNone
    /\ UNCHANGED <<embFile, metaFile, notRetrieverVars, adding, srch>>

(***************************************************************************)
(* SimpleRAGRetriever.search.  Indices are 1-based here, 0-based in the    *)
(* code.                                                                   *)
(***************************************************************************)
\* the min_relevance values explored: -1.0, 0.0 and the default 0.3
MinRelevances ==
    {-100, 0, 30}

\* the default of min_relevance, which rag_retrieval_tool passes too
DefaultMinRelevance == 30
\* the default of n_results
DefaultResults == 5

\* similarities = self._cosine_similarity(query_embedding, self.embeddings)
Similarities(query, emb) ==
    [i \in 1..Len(emb) |-> CosSim(Embed(query), emb[i])]

\* np.argsort(similarities)[::-1]: the orders of the indices in S by
\* decreasing similarity.  The default sort of argsort is not stable, so
\* indices of equal similarity may come in any order.
RECURSIVE DescendingOrders(_, _)
DescendingOrders(sims, S) ==
    IF S = {} THEN {<<>>}
    ELSE UNION { { <<i>> \o rest : rest \in DescendingOrders(sims, S \ {i}) } :
                 i \in {j \in S : \A k \in S : sims[j] >= sims[k]} }

\* the number of distinct lower-cased query terms found in the content
KeywordMatches(query, content) ==
    Cardinality({term \in Range(Split(Lower(query))) : Contains(content, term)})

\* keyword_score = min(0.2, keyword_matches * 0.05)
KeywordScore(matches) ==
    Min(20, matches * 5)

\* relevance_score = min(1.0, similarity + keyword_score)
RelevanceScore(similarity, keyword_score) ==
    Min(100, similarity + keyword_score)

\* the result dict built for index idx
ResultOf(query, meta, idx, similarity) ==
    LET content == Lower(Get(meta[idx], "content", <<>>))
        keyword_score == KeywordScore(KeywordMatches(query, content))
    IN  [relevance_score |-> RelevanceScore(similarity, keyword_score),
         semantic_score |-> similarity,
         keyword_score |-> keyword_score] @@ meta[idx]

\* a variant that compares the boosted score with min_relevance
RECURSIVE FormatResultsFloorAfterBoost(_, _, _, _, _)
FormatResultsFloorAfterBoost(query, meta, sims, top_indices, min_relevance) ==
    IF top_indices = <<>> THEN <<>>
    ELSE LET idx == Head(top_indices)
             rest == FormatResultsFloorAfterBoost(query, meta, sims,
                                                  Tail(top_indices), min_relevance)
         IN  IF idx > Len(meta) THEN rest
             ELSE IF ResultOf(query, meta, idx, sims[idx]).relevance_score < min_relevance
                  THEN rest
             ELSE <<ResultOf(query, meta, idx, sims[idx])>> \o rest

\* the loop over top_indices: indices past the metadata and similarities
\* below min_relevance are passed over
RECURSIVE FormatResults(_, _, _, _, _)
FormatResults(query, meta, sims, top_indices, min_relevance) ==
    IF top_indices = <<>> THEN <<>>
    ELSE LET idx == Head(top_indices)
             rest == FormatResults(query, meta, sims, Tail(top_indices), min_relevance)
         IN  IF idx > Len(meta) THEN rest
             ELSE IF sims[idx] < min_relevance THEN rest
             ELSE <<ResultOf(query, meta, idx, sims[idx])>> \o rest

\* a variant that puts r before the elements that compare equal to it
RECURSIVE InsertBeforeEqual(_, _)
InsertBeforeEqual(sorted, r) ==
    IF sorted = <<>> THEN <<r>>
    ELSE IF Head(sorted).relevance_score > r.relevance_score
         THEN <<Head(sorted)>> \o InsertBeforeEqual(Tail(sorted), r)
         ELSE <<r>> \o sorted

\* r put into a list sorted by decreasing relevance_score, after the
\* elements that compare equal to it
RECURSIVE InsertByRelevance(_, _)
InsertByRelevance(sorted, r) ==
    IF sorted = <<>> THEN <<r>>
    ELSE IF Head(sorted).relevance_score >= r.relevance_score
         THEN <<Head(sorted)>> \o InsertByRelevance(Tail(sorted), r)
         ELSE <<r>> \o sorted

\* a variant that leaves the candidates in the order of their similarity
KeepCandidateOrder(results) ==
    results

\* results.sort(key=lambda x: x['relevance_score'], reverse=True): stable
RECURSIVE SortByRelevance(_)
SortByRelevance(results) ==
    IF results = <<>> THEN <<>>
    ELSE InsertByRelevance(SortByRelevance(SubSeq(results, 1, Len(results) - 1)),
                           results[Len(results)])

\* a variant that takes every index as a candidate
SearchResultsAllCandidates(query, n_results, min_relevance, emb, meta, order) ==
    Take(SortByRelevance(FormatResults(query, meta, Similarities(query, emb),
                                       order, min_relevance)),
         n_results)

\* what search returns when argsort gives the order  order
SearchResults(query, n_results, min_relevance, emb, meta, order) ==
    LET sims == Similarities(query, emb)
        top_indices == Take(order, n_results * 2)
        results == FormatResults(query, meta, sims, top_indices, min_relevance)
    IN  Take(SortByRelevance(results), n_results)

\* the values search can return on the arrays given
SearchReturns(query, n_results, min_relevance, emb, meta) ==
    { SearchResults(query, n_results, min_relevance, emb, meta, order) :
        order \in DescendingOrders(Similarities(query, emb), 1..Len(emb)) }

\* search(query, n_results, min_relevance): an empty metadata list returns
\* [] at once; the provider embeds the query, or raises; the results are
\* computed from the arrays as they are
Search(query, n_results, min_relevance) ==
    /\ addPc = "idle"
    /\ LET args == <<query, n_results, min_relevance>>
       IN  IF Len(metadata) = 0
           THEN ret' = Returned("search", args, <<>>)
           ELSE \/ ret' = Raised("search", args, "ProviderFailure")
                \/ \E value \in SearchReturns(query, n_results, min_relevance,
                                              embeddings, metadata) :
                       ret' = Returned("search", args, value)
    /\ UNCHANGED <<storeVars, addPc, notRetrieverVars, adding, srch>>

(***************************************************************************)
(* search and add_documents called by two threads on the retriever         *)
(* singleton.  Neither method takes a lock, so the calls interleave        *)
(* between the statements that read or write self.embeddings and           *)
(* self.metadata: add_documents assigns self.embeddings, then appends the  *)
(* records one by one; search reads self.embeddings once, then reads       *)
(* self.metadata in every pass of its loop.                                *)
(***************************************************************************)
\* no add_documents call is in its loop
AddIdle ==
    [chunks |-> <<>>, i |-> 0]

\* no search call is running
SrchIdle ==
    [pc |-> "idle", args |-> <<>>, similarities |-> <<>>, top_indices |-> <<>>,
     results |-> <<>>, snapshots |-> {}]

\* the index as it is when no add_documents call is in its loop, and as it
\* was when the running call began
StableIndex ==
    [emb |-> Take(embeddings, Len(metadata) - adding.i),
     meta |-> Take(metadata, Len(metadata) - adding.i)]

\* add_documents up to the assignment of self.embeddings: a non-empty batch
\* is encoded and its vectors are appended
AddDocumentsEncode(chunks) ==
    /\ addPc = "idle"
    /\ chunks # <<>>
    /\ Len(metadata) + Len(chunks) <= MaxChunks
    /\ Len(embeddings) + Len(chunks) <= MaxChunks
    /\ embeddings' = AppendEmbeddings(embeddings,
                         EncodeAll([i \in 1..Len(chunks) |-> chunks[i].text]))
    /\ adding' = [chunks |-> chunks, i |-> 0]
    /\ addPc' = "append"
    /\ ret' = RetNone
    /\ UNCHANGED <<metadata, embFile, metaFile, srch, notRetrieverVars>>

\* one pass of  for chunk in chunks: self.metadata.append(meta); after the
\* last pass _save writes the embeddings file.  srch.snapshots takes note of
\* the index a completed loop leaves while a search runs.
AddDocumentsAppend ==
    /\ addPc = "append"
    /\ metadata' = AppendMetadata(metadata, <<adding.chunks[adding.i + 1]>>)
    /\ IF adding.i + 1 = Len(adding.chunks)
       THEN /\ embFile' = FileOf(embeddings)
            /\ addPc' = "save_metadata"
            /\ adding' = AddIdle
            /\ srch' = IF srch.pc = "loop"
                       THEN [srch EXCEPT !.snapshots =
                                @ \cup {[emb |-> embeddings, meta |-> metadata']}]
                       ELSE srch
       ELSE /\ adding' = [adding EXCEPT !.i = @ + 1]
            /\ UNCHANGED <<embFile, addPc, srch>>
    /\ UNCHANGED <<embeddings, metaFile, ret, notRetrieverVars>>

\* search up to the loop: an empty metadata list returns [] at once; else
\* the similarities to the vectors held now are computed and the top
\* indices chosen.  srch.snapshots takes note of the index no add is
\* half-way through.
SearchRank(query, n_results, min_relevance) ==
    /\ srch.pc \in {"idle", "done"}
    /\ LET args == <<query, n_results, min_relevance>>
           sims == Similarities(query, embeddings)
       IN  IF Len(metadata) = 0
           THEN /\ ret' = Returned("search", args, <<>>)
                /\ srch' = [SrchIdle EXCEPT !.pc = "done", !.args = args,
                                            !.snapshots = {StableIndex}]
           ELSE /\ ret' = RetNone
                /\ \E order \in DescendingOrders(sims, 1..Len(embeddings)) :
                       srch' = [pc |-> "loop", args |-> args, similarities |-> sims,
                                top_indices |-> Take(order, n_results * 2),
                                results |-> <<>>, snapshots |-> {StableIndex}]
    /\ UNCHANGED <<storeVars, addPc, adding, notRetrieverVars>>

\* one pass of  for idx in top_indices, on the metadata held now
SearchCandidate ==
    /\ srch.pc = "loop"
    /\ srch.top_indices # <<>>
    /\ srch' = [srch EXCEPT
                   !.top_indices = Tail(@),
                   !.results = @ \o FormatResults(srch.args[1], metadata,
                                                  srch.similarities,
                                                  <<Head(srch.top_indices)>>,
                                                  srch.args[3])]
    /\ UNCHANGED <<storeVars, addPc, ret, adding, notRetrieverVars>>

\* the loop is over: the results are sorted, cut to n_results and returned
SearchReturn ==
    /\ srch.pc = "loop"
    /\ srch.top_indices = <<>>
    /\ ret' = Returned("search", srch.args,
                       Take(SortByRelevance(srch.results), srch.args[2]))
    /\ srch' = [srch EXCEPT !.pc = "done"]
    /\ UNCHANGED <<storeVars, addPc, adding, notRetrieverVars>>

(***************************************************************************)
(* QueryRouter.  A confidence is a number of thirds (min(1.0, score / 3)); *)
(* a hit rate is a number of [0, 1) written in base 20, as the sequence of  *)
(* its digits after the point without trailing zeros: 0.9 is <<18>> and    *)
(* 0.9 * 1.05 = 0.945 is <<18, 18>>.  The products by 1.05 and 0.95 are    *)
(* then exact, for any number of updates (the code's floats are read as    *)
(* the reals they approximate).                                            *)
(***************************************************************************)
\* domain_keywords['ai_ml']
Keywords_ai_ml ==
    <<
      \* machine learning
      <<"m","a","c","h","i","n","e"," ","l","e","a","r","n","i","n","g">>,
      \* artificial intelligence
      <<"a","r","t","i","f","i","c","i","a","l"," ","i","n","t","e","l","l","i","g","e","n","c","e">>,
      \* deep learning
      <<"d","e","e","p"," ","l","e","a","r","n","i","n","g">>,
      \* neural network
      <<"n","e","u","r","a","l"," ","n","e","t","w","o","r","k">>,
      \* ai
      <<"a","i">>,
      \* ml
      <<"m","l">>,
      \* algorithm
      <<"a","l","g","o","r","i","t","h","m">>,
      \* model training
      <<"m","o","d","e","l"," ","t","r","a","i","n","i","n","g">>,
      \* data science
      <<"d","a","t","a"," ","s","c","i","e","n","c","e">>,
      \* nlp
      <<"n","l","p">>,
      \* computer vision
      <<"c","o","m","p","u","t","e","r"," ","v","i","s","i","o","n">>,
      \* reinforcement learning
      <<"r","e","i","n","f","o","r","c","e","m","e","n","t"," ","l","e","a","r","n","i","n","g">>
    >>

\* domain_keywords['technology']
Keywords_technology ==
    <<
      \* software
      <<"s","o","f","t","w","a","r","e">>,
      \* programming
      <<"p","r","o","g","r","a","m","m","i","n","g">>,
      \* code
      <<"c","o","d","e">>,
      \* development
      <<"d","e","v","e","l","o","p","m","e","n","t">>,
      \* algorithm
      <<"a","l","g","o","r","i","t","h","m">>,
      \* tech
      <<"t","e","c","h">>,
      \* computer
      <<"c","o","m","p","u","t","e","r">>,
      \* system
      <<"s","y","s","t","e","m">>,
      \* application
      <<"a","p","p","l","i","c","a","t","i","o","n">>,
      \* framework
      <<"f","r","a","m","e","w","o","r","k">>,
      \* api
      <<"a","p","i">>,
      \* database
      <<"d","a","t","a","b","a","s","e">>,
      \* architecture
      <<"a","r","c","h","i","t","e","c","t","u","r","e">>,
      \* devops
      <<"d","e","v","o","p","s">>,
      \* cloud
      <<"c","l","o","u","d">>
    >>

\* domain_keywords['business']
Keywords_business ==
    <<
      \* business
      <<"b","u","s","i","n","e","s","s">>,
      \* marketing
      <<"m","a","r","k","e","t","i","n","g">>,
      \* sales
      <<"s","a","l","e","s">>,
      \* strategy
      <<"s","t","r","a","t","e","g","y">>,
      \* growth
      <<"g","r","o","w","t","h">>,
      \* revenue
      <<"r","e","v","e","n","u","e">>,
      \* roi
      <<"r","o","i">>,
      \* customer
      <<"c","u","s","t","o","m","e","r">>,
      \* market
      <<"m","a","r","k","e","t">>,
      \* brand
      <<"b","r","a","n","d">>,
      \* advertising
      <<"a","d","v","e","r","t","i","s","i","n","g">>,
      \* campaign
      <<"c","a","m","p","a","i","g","n">>,
      \* seo
      <<"s","e","o">>,
      \* content marketing
      <<"c","o","n","t","e","n","t"," ","m","a","r","k","e","t","i","n","g">>
    >>

\* domain_keywords['software_dev']
Keywords_software_dev ==
    <<
      \* agile
      <<"a","g","i","l","e">>,
      \* scrum
      <<"s","c","r","u","m">>,
      \* testing
      <<"t","e","s","t","i","n","g">>,
      \* deployment
      <<"d","e","p","l","o","y","m","e","n","t">>,
      \* ci/cd
      <<"c","i","/","c","d">>,
      \* git
      <<"g","i","t">>,
      \* version control
      <<"v","e","r","s","i","o","n"," ","c","o","n","t","r","o","l">>,
      \* clean code
      <<"c","l","e","a","n"," ","c","o","d","e">>,
      \* design pattern
      <<"d","e","s","i","g","n"," ","p","a","t","t","e","r","n">>,
      \* microservices
      <<"m","i","c","r","o","s","e","r","v","i","c","e","s">>,
      \* docker
      <<"d","o","c","k","e","r">>,
      \* kubernetes
      <<"k","u","b","e","r","n","e","t","e","s">>
    >>

\* current_indicators of _should_use_rag
current_indicators ==
    <<
      \* 2024
      <<"2","0","2","4">>,
      \* 2025
      <<"2","0","2","5">>,
      \* latest
      <<"l","a","t","e","s","t">>,
      \* recent
      <<"r","e","c","e","n","t">>,
      \* news
      <<"n","e","w","s">>,
      \* today
      <<"t","o","d","a","y">>
    >>

\* location_indicators of _should_use_rag
location_indicators ==
    <<
      \* nyc
      <<"n","y","c">>,
      \* new york
      <<"n","e","w"," ","y","o","r","k">>,
      \* city
      <<"c","i","t","y">>,
      \* travel
      <<"t","r","a","v","e","l">>,
      \* visit
      <<"v","i","s","i","t">>,
      \* restaurant
      <<"r","e","s","t","a","u","r","a","n","t">>
    >>


\* the domains of domain_keywords, in dict order
Domains ==
    <<"ai_ml", "technology", "business", "software_dev">>

domain_keywords ==
    [d \in Range(Domains) |->
        CASE d = "ai_ml" -> Keywords_ai_ml
          [] d = "technology" -> Keywords_technology
          [] d = "business" -> Keywords_business
          [] d = "software_dev" -> Keywords_software_dev]

\* the hit rate h / 100, for h a multiple of 5 below 100
Rate(h) ==
    <<h \div 5>>

\* the i-th digit after the point
Digit(r, i) ==
    IF i <= Len(r) THEN r[i] ELSE 0

\* r without its trailing zeros
RECURSIVE Trim(_)
Trim(r) ==
    IF r # <<>> /\ r[Len(r)] = 0 THEN Trim(SubSeq(r, 1, Len(r) - 1)) ELSE r

\* a < b
RateLess(a, b) ==
    \E i \in 1..(Len(a) + Len(b)) :
        /\ Digit(a, i) < Digit(b, i)
        /\ \A j \in 1..(i - 1) : Digit(a, j) = Digit(b, j)

\* r * 0.05
Twentieth(r) ==
    <<0>> \o r

\* the carry of a + b into digit i, from the digits after it
RECURSIVE CarryInto(_, _, _, _)
CarryInto(a, b, i, n) ==
    IF i >= n THEN 0
    ELSE (Digit(a, i + 1) + Digit(b, i + 1) + CarryInto(a, b, i + 1, n)) \div 20

\* a + b, for a + b < 1
RatePlus(a, b) ==
    LET n == Len(a) + Len(b)
    IN  Trim([i \in 1..n |-> (Digit(a, i) + Digit(b, i) + CarryInto(a, b, i, n)) % 20])

\* the borrow of a - b from digit i, for the digits after it
RECURSIVE BorrowFrom(_, _, _, _)
BorrowFrom(a, b, i, n) ==
    IF i >= n THEN 0
    ELSE IF Digit(a, i + 1) - Digit(b, i + 1) - BorrowFrom(a, b, i + 1, n) < 0 THEN 1
    ELSE 0

\* a - b, for a >= b
RateMinus(a, b) ==
    LET n == Len(a) + Len(b)
    IN  Trim([i \in 1..n |->
                 (Digit(a, i) - Digit(b, i) - BorrowFrom(a, b, i, n) + 20) % 20])

\* current_rate * 1.05 and current_rate * 0.95
RateTimes105(r) ==
    RatePlus(r, Twentieth(r))
RateTimes095(r) ==
    RateMinus(r, Twentieth(r))

\* domain_hit_rates as __init__ sets it
InitialHitRates ==
    [d \in {"ai_ml", "technology", "business", "software_dev", "unknown"} |->
        CASE d = "ai_ml" -> Rate(90)
          [] d = "technology" -> Rate(75)
          [] d = "business" -> Rate(70)
          [] d = "software_dev" -> Rate(80)
          [] d = "unknown" -> Rate(10)]

InitialStats ==
    [total_queries |-> 0, rag_recommended |-> 0, rag_skipped |-> 0,
     rag_hits |-> 0, rag_misses |-> 0, web_only |-> 0]

\* sum(1 for keyword in keywords if keyword in query)
DomainScore(domain, query) ==
    Cardinality({k \in 1..Len(domain_keywords[domain]) :
                    Contains(query, domain_keywords[domain][k])})

\* a variant in which the last domain of the highest score wins
ClassifyDomainLastBest(query) ==
    LET scored == {i \in 1..Len(Domains) : DomainScore(Domains[i], query) > 0}
    IN  IF scored = {}
        THEN [domain |-> "unknown", confidence |-> 0]
        ELSE LET best == CHOOSE i \in scored :
                             /\ \A j \in scored : DomainScore(Domains[j], query)
                                                     <= DomainScore(Domains[i], query)
                             /\ \A j \in scored : j > i =>
                                    DomainScore(Domains[j], query)
                                        < DomainScore(Domains[i], query)
             IN  [domain |-> Domains[best],
                  confidence |-> Min(3, DomainScore(Domains[best], query))]

\* _classify_domain(query): the first domain of the highest score
ClassifyDomain(query) ==
    LET scored == {i \in 1..Len(Domains) : DomainScore(Domains[i], query) > 0}
    IN  IF scored = {}
        THEN [domain |-> "unknown", confidence |-> 0]
        ELSE LET best == CHOOSE i \in scored :
                             /\ \A j \in scored : DomainScore(Domains[j], query)
                                                     <= DomainScore(Domains[i], query)
                             /\ \A j \in scored : j < i =>
                                    DomainScore(Domains[j], query)
                                        < DomainScore(Domains[i], query)
             IN  [domain |-> Domains[best],
                  confidence |-> Min(3, DomainScore(Domains[best], query))]

\* self.domain_hit_rates.get(domain, 0.1)
ExpectedHitRate(rates, domain) ==
    IF domain \in DOMAIN rates THEN rates[domain] ELSE Rate(10)

\* any(indicator in query for indicator in indicators)
AnyIn(indicators, query) ==
    \E k \in 1..Len(indicators) : Contains(query, indicators[k])

\* a variant without the confidence rule
ShouldUseRagAnyConfidence(rates, domain, confidence, query) ==
    IF RateLess(ExpectedHitRate(rates, domain), Rate(30)) THEN FALSE
    ELSE IF AnyIn(current_indicators, query) /\ confidence * 10 < 7 * 3 THEN FALSE
    ELSE IF AnyIn(location_indicators, query)
            /\ domain \notin {"technology", "business", "ai_ml"} THEN FALSE
    ELSE TRUE

\* a variant without the hit-rate rule
ShouldUseRagAnyHitRate(rates, domain, confidence, query) ==
    IF confidence * 10 < 2 * 3 THEN FALSE
    ELSE IF AnyIn(current_indicators, query) /\ confidence * 10 < 7 * 3 THEN FALSE
    ELSE IF AnyIn(location_indicators, query)
            /\ domain \notin {"technology", "business", "ai_ml"} THEN FALSE
    ELSE TRUE

\* _should_use_rag(domain, confidence, query)
ShouldUseRag(rates, domain, confidence, query) ==
    IF confidence * 10 < 2 * 3 THEN FALSE
    ELSE IF RateLess(ExpectedHitRate(rates, domain), Rate(30)) THEN FALSE
    ELSE IF AnyIn(current_indicators, query) /\ confidence * 10 < 7 * 3 THEN FALSE
    ELSE IF AnyIn(location_indicators, query)
            /\ domain \notin {"technology", "business", "ai_ml"} THEN FALSE
    ELSE TRUE

\* _get_search_strategy(use_rag, domain): what it returns
SearchStrategy(rates, use_rag, domain) ==
    IF ~use_rag THEN "web_only"
    ELSE IF domain \in {"ai_ml", "software_dev"} /\ RateLess(Rate(75), rates[domain])
         THEN "rag_primary"
    ELSE IF domain \in {"technology", "business"} THEN "rag_hybrid"
    ELSE "rag_primary"

\* _classify_domain of the lowered queries explored, computed once
ClassifiedQueries ==
    [q \in {Lower(query) : query \in Queries \cup RouterQueries} |-> ClassifyDomain(q)]

\* analyze_query(query): what it returns
AnalyzeQuery(rates, query) ==
    LET query_lower == Lower(query)
        classified == IF query_lower \in DOMAIN ClassifiedQueries
                      THEN ClassifiedQueries[query_lower]
                      ELSE ClassifyDomain(query_lower)
        should_use_rag == ShouldUseRag(rates, classified.domain,
                                       classified.confidence, query_lower)
    IN  [domain |-> classified.domain,
         confidence |-> classified.confidence,
         use_rag |-> should_use_rag,
         strategy |-> SearchStrategy(rates, should_use_rag, classified.domain),
         expected_hit_rate |-> ExpectedHitRate(rates, classified.domain)]

\* the counters after analyze_query
StatsAfterAnalyze(st, routing) ==
    [st EXCEPT !.total_queries = @ + 1,
               !.web_only = IF routing.use_rag THEN @ ELSE @ + 1,
               !.rag_recommended = IF routing.use_rag THEN @ + 1 ELSE @]

\* a variant that does not clamp the rate after a hit
RecordedRatesUnclamped(rates, domain, found_results) ==
    IF domain \notin DOMAIN rates THEN rates
    ELSE IF found_results
         THEN [rates EXCEPT ![domain] = RateTimes105(@)]
         ELSE [rates EXCEPT ![domain] = IF RateLess(Rate(5), RateTimes095(@))
                                        THEN RateTimes095(@) ELSE Rate(5)]

\* a variant that leaves the rate as it is after a miss
RecordedRatesIgnoresMiss(rates, domain, found_results) ==
    IF domain \notin DOMAIN rates THEN rates
    ELSE IF found_results
         THEN [rates EXCEPT ![domain] = IF RateLess(Rate(95), RateTimes105(@))
                                        THEN Rate(95) ELSE RateTimes105(@)]
         ELSE rates

\* the hit rates after record_rag_result(domain, found_results)
RecordedRates(rates, domain, found_results) ==
    IF domain \notin DOMAIN rates THEN rates
    ELSE IF found_results
         THEN [rates EXCEPT ![domain] = IF RateLess(Rate(95), RateTimes105(@))
                                        THEN Rate(95) ELSE RateTimes105(@)]
         ELSE [rates EXCEPT ![domain] = IF RateLess(Rate(5), RateTimes095(@))
                                        THEN RateTimes095(@) ELSE Rate(5)]

\* a variant that counts every outcome as a hit
RecordedStatsAlwaysHit(st, found_results) ==
    [st EXCEPT !.rag_hits = @ + 1]

\* the counters after record_rag_result(domain, found_results)
RecordedStats(st, found_results) ==
    IF found_results
    THEN [st EXCEPT !.rag_hits = @ + 1]
    ELSE [st EXCEPT !.rag_misses = @ + 1]

(***************************************************************************)
(* The query interface, rag_retrieval_tool(query, max_results).            *)
(***************************************************************************)
ToolNone ==
    [kind |-> "none", query |-> <<>>, routing |-> AnalyzeQuery(InitialHitRates, <<>>),
     searched |-> FALSE, results |-> <<>>]

\* what a call did: the report it returned (the empty-index notice, the
\* no-results report, the results or the error report), the routing
\* decision, whether retriever.search was called, and the results
ToolOut(kind, query, routing, searched, results) ==
    [kind |-> kind, query |-> query, routing |-> routing,
     searched |-> searched, results |-> results]

\* a variant that never reports an empty index
GetCollectionStatsNeverEmpty(meta) ==
    [total_chunks |-> Len(meta) + 1, status |-> "available"]

\* get_collection_stats(): the number of records and the status (the count
\* of records per topic, which the query interface does not read, is left
\* out)
GetCollectionStats(meta) ==
    [total_chunks |-> Len(meta),
     status |-> IF Len(meta) > 0 THEN "available" ELSE "empty"]

\* rag_retrieval_tool(query, max_results): the router analyses the query;
\* an index without records gives the empty-index notice; else the index
\* is searched with min_relevance=0.3 and the outcome recorded in the
\* router; an exception raised on the way gives the error report
RagRetrievalTool(query, max_results) ==
    /\ addPc = "idle"
    /\ stats.total_queries < MaxQueries
    /\ LET routing == AnalyzeQuery(hitRates, query)
           analyzed == StatsAfterAnalyze(stats, routing)
           args == <<query, max_results, DefaultMinRelevance>>
       IN  IF GetCollectionStats(metadata).total_chunks = 0
           THEN /\ toolOut' = ToolOut("empty", query, routing, FALSE, <<>>)
                /\ stats' = analyzed
                /\ UNCHANGED <<hitRates, ret>>
           ELSE \/ /\ ret' = Raised("search", args, "ProviderFailure")
                   /\ toolOut' = ToolOut("error", query, routing, TRUE, <<>>)
                   /\ stats' = analyzed
                   /\ UNCHANGED hitRates
                \/ \E results \in SearchReturns(query, max_results, DefaultMinRelevance,
                                                embeddings, metadata) :
                       /\ ret' = Returned("search", args, results)
                       /\ hitRates' = RecordedRates(hitRates, routing.domain,
                                                    Len(results) > 0)
                       /\ stats' = RecordedStats(analyzed, Len(results) > 0)
                       /\ toolOut' = ToolOut(IF results = <<>> THEN "no_results"
                                             ELSE "results",
                                             query, routing, TRUE, results)
    /\ routed' = [query |-> query, routing |-> AnalyzeQuery(hitRates, query)]
    /\ UNCHANGED <<storeVars, addPc, builderVars, rec, adding, srch>>

(***************************************************************************)
(* QueryRouter called directly: analyze_query, and record_rag_result as    *)
(* the two steps of its unlocked update, run by one thread or by several.  *)
(***************************************************************************)
Threads ==
    1..MaxThreads

RoutedNone ==
    [query |-> <<>>, routing |-> AnalyzeQuery(InitialHitRates, <<>>)]

\* a thread that has not called record_rag_result
RecIdle ==
    [pc |-> "idle", domain |-> "", found |-> FALSE, current_rate |-> <<>>]

\* analyze_query(query)
AnalyzeQueryCall(query) ==
    /\ stats.total_queries < MaxQueries
    /\ routed' = [query |-> query, routing |-> AnalyzeQuery(hitRates, query)]
    /\ stats' = StatsAfterAnalyze(stats, routed'.routing)
    /\ UNCHANGED <<storeVars, addPc, ret, builderVars, hitRates, toolOut, rec, adding, srch>>

\* record_rag_result(domain, found_results) up to the read of
\* self.domain_hit_rates[domain]: the counter is incremented and the
\* current rate is read into current_rate
RecordRead(t, domain, found_results) ==
    /\ rec[t].pc = "idle"
    /\ stats' = RecordedStats(stats, found_results)
    /\ rec' = [rec EXCEPT ![t] =
                  IF domain \in DOMAIN hitRates
                  THEN [pc |-> "write", domain |-> domain, found |-> found_results,
                        current_rate |-> hitRates[domain]]
                  ELSE [pc |-> "done", domain |-> domain, found |-> found_results,
                        current_rate |-> <<>>]]
    /\ UNCHANGED <<storeVars, addPc, ret, builderVars, hitRates, toolOut, routed, adding, srch>>

\* record_rag_result: the assignment to self.domain_hit_rates[domain] of the
\* rate computed from current_rate
RecordWrite(t) ==
    /\ rec[t].pc = "write"
    /\ hitRates' = [hitRates EXCEPT ![rec[t].domain] =
                       RecordedRates([hitRates EXCEPT ![rec[t].domain] = rec[t].current_rate],
                                     rec[t].domain, rec[t].found)[rec[t].domain]]
    /\ rec' = [rec EXCEPT ![t].pc = "done"]
    /\ UNCHANGED <<storeVars, addPc, ret, builderVars, stats, toolOut, routed, adding, srch>>

(***************************************************************************)
(* SimpleKnowledgeBaseBuilder.ingest_directory, run by the build script in *)
(* a process of its own.  It starts from empty arrays, and what it saves   *)
(* replaces both files.                                                    *)
(***************************************************************************)
\* ingest_directory up to the first write of _save: with no chunk nothing
\* is saved; the provider returns a vector per chunk text, or raises and
\* ends the build; then the arrays are set and the embeddings file is
\* written (np.save)
IngestDirectory(files) ==
    /\ bPc = "idle"
    /\ IF AllChunks[files] = <<>>
       THEN UNCHANGED <<builderVars, embFile>>
       ELSE \/ /\ bEmbeddings' = EncodeAll([i \in 1..Len(AllChunks[files]) |->
                                               AllChunks[files][i].text])
               /\ bMetadata' = AllChunks[files]
               /\ embFile' = FileOf(bEmbeddings')
               /\ bPc' = "save_metadata"
            \/ UNCHANGED <<builderVars, embFile>>
    /\ UNCHANGED <<embeddings, metadata, metaFile, addPc, ret, routerVars, adding, srch>>

\* _save, second write: pickle.dump(self.metadata, f); the build ends
BuilderSaveMetadata ==
    /\ bPc = "save_metadata"
    /\ metaFile' = FileOf(bMetadata)
    /\ bPc' = "idle"
    /\ bEmbeddings' = <<>>
    /\ bMetadata' = <<>>
    /\ UNCHANGED <<embeddings, metadata, embFile, addPc, ret, routerVars, adding, srch>>

\* the build ends between the two writes (the second write raises, or the
\* process is stopped)
BuilderSaveMetadataFails ==
    /\ bPc = "save_metadata"
    /\ bPc' = "idle"
    /\ bEmbeddings' = <<>>
    /\ bMetadata' = <<>>
    /\ UNCHANGED <<storeVars, addPc, ret, routerVars, adding, srch>>

Init ==
    /\ embeddings = <<>>
    /\ metadata = <<>>
    /\ embFile = NoFile
    /\ metaFile = NoFile
    /\ addPc = "idle"
    /\ ret = RetNone
    /\ bPc = "idle"
    /\ bEmbeddings = <<>>
    /\ bMetadata = <<>>
    /\ hitRates = InitialHitRates
    /\ stats = InitialStats
    /\ toolOut = ToolNone
    /\ routed = RoutedNone
    /\ rec = [t \in Threads |-> RecIdle]
    /\ adding = AddIdle
    /\ srch = SrchIdle

Next ==
    \/ \E chunks \in Batches : AddDocuments(chunks)
    \/ AddSaveMetadata
    \/ AddSaveMetadataFails
    \/ Restart
    \/ Search(Q_ml, DefaultResults, DefaultMinRelevance)
    \/ \E files \in Directories : IngestDirectory(files)
    \/ BuilderSaveMetadata
    \/ BuilderSaveMetadataFails

Spec == Init /\ [][Next]_vars

(***************************************************************************)
(* search as a function of the index: every query, n_results and           *)
(* min_relevance explored, on each index a retriever can hold after        *)
(* construction.  Such an index is what a build saved (or nothing),        *)
(* extended by completed adds; or the embeddings of one such index with    *)
(* the metadata of another, when the first write of a save was done and    *)
(* the second was not.                                                     *)
(***************************************************************************)
\* the index a completed build of the files leaves
BuiltIndex(files) ==
    [emb |-> EncodeAll([i \in 1..Len(AllChunks[files]) |-> AllChunks[files][i].text]),
     meta |-> AllChunks[files]]

\* the index after a completed add_documents(chunks)
Extended(index, chunks) ==
    [emb |-> AppendEmbeddings(index.emb,
                              EncodeAll([i \in 1..Len(chunks) |-> chunks[i].text])),
     meta |-> AppendMetadata(index.meta, chunks)]

\* the indexes of equal lengths reached by at most k adds
RECURSIVE AlignedAfter(_)
AlignedAfter(k) ==
    IF k = 0
    THEN {[emb |-> <<>>, meta |-> <<>>]}
             \cup {BuiltIndex(files) : files \in {d \in Directories : AllChunks[d] # <<>>}}
    ELSE LET before == AlignedAfter(k - 1)
         IN  before \cup
             { Extended(index, <<chunk>>) :
                 index \in before,
                 chunk \in AddChunkInputs \cup {EmptyTextChunk} }

AlignedIndexes ==
    {index \in AlignedAfter(MaxIndex) : Len(index.meta) <= MaxIndex}

\* what a retriever loads after a save that stopped between its two writes
TornIndexes ==
    { [emb |-> pair[2].emb, meta |-> pair[1].meta] :
        pair \in { <<older, newer>> \in AlignedIndexes \X AlignedIndexes :
                     /\ older.meta # <<>>
                     /\ \/ \E files \in Directories : newer = BuiltIndex(files)
                        \/ /\ Len(newer.meta) > Len(older.meta)
                           /\ SubSeq(newer.meta, 1, Len(older.meta)) = older.meta } }

LoadableIndexes ==
    AlignedIndexes \cup TornIndexes

InitSearch ==
    /\ \E index \in LoadableIndexes :
           /\ embeddings = index.emb
           /\ metadata = index.meta
           /\ embFile = (IF index.emb = <<>> THEN NoFile ELSE FileOf(index.emb))
           /\ metaFile = (IF index.meta = <<>> THEN NoFile ELSE FileOf(index.meta))
    /\ addPc = "idle"
    /\ ret = RetNone
    /\ bPc = "idle"
    /\ bEmbeddings = <<>>
    /\ bMetadata = <<>>
    /\ hitRates = InitialHitRates
    /\ stats = InitialStats
    /\ toolOut = ToolNone
    /\ routed = RoutedNone
    /\ rec = [t \in Threads |-> RecIdle]
    /\ adding = AddIdle
    /\ srch = SrchIdle

\* one search on the index drawn
NextSearch ==
    /\ ret = RetNone
    /\ \E query \in Queries, n_results \in 0..MaxResults, min_relevance \in MinRelevances :
           Search(query, n_results, min_relevance)

SpecSearch == InitSearch /\ [][NextSearch]_vars

(***************************************************************************)
(* The query path: calls of rag_retrieval_tool on the index that a         *)
(* completed build, or none, left.                                         *)
(***************************************************************************)
InitQuery ==
    /\ \E index \in AlignedAfter(0) :
           /\ embeddings = index.emb
           /\ metadata = index.meta
           /\ embFile = (IF index.emb = <<>> THEN NoFile ELSE FileOf(index.emb))
           /\ metaFile = (IF index.meta = <<>> THEN NoFile ELSE FileOf(index.meta))
    /\ addPc = "idle"
    /\ ret = RetNone
    /\ bPc = "idle"
    /\ bEmbeddings = <<>>
    /\ bMetadata = <<>>
    /\ hitRates = InitialHitRates
    /\ stats = InitialStats
    /\ toolOut = ToolNone
    /\ routed = RoutedNone
    /\ rec = [t \in Threads |-> RecIdle]
    /\ adding = AddIdle
    /\ srch = SrchIdle

NextQuery ==
    \E query \in Queries, max_results \in 0..MaxResults :
        RagRetrievalTool(query, max_results)

SpecQuery == InitQuery /\ [][NextQuery]_vars

(***************************************************************************)
(* The routing scenarios: QueryRouter after a run of record_rag_result     *)
(* calls on one domain, then analyze_query and record_rag_result calls of  *)
(* one thread.                                                             *)
(***************************************************************************)
\* the router after k calls record_rag_result(domain, found_results)
RECURSIVE AfterRecords(_, _, _)
AfterRecords(domain, found_results, k) ==
    IF k = 0 THEN [rates |-> InitialHitRates, stats |-> InitialStats]
    ELSE LET before == AfterRecords(domain, found_results, k - 1)
         IN  [rates |-> RecordedRates(before.rates, domain, found_results),
              stats |-> RecordedStats(before.stats, found_results)]

\* the routers the scenarios start from
PriorRouters ==
    {AfterRecords(domain, found_results, k) :
        domain \in DOMAIN InitialHitRates, found_results \in BOOLEAN, k \in 0..MaxRecords}

InitRouter ==
    /\ embeddings = <<>>
    /\ metadata = <<>>
    /\ embFile = NoFile
    /\ metaFile = NoFile
    /\ addPc = "idle"
    /\ ret = RetNone
    /\ bPc = "idle"
    /\ bEmbeddings = <<>>
    /\ bMetadata = <<>>
    /\ \E prior \in PriorRouters :
           /\ hitRates = prior.rates
           /\ stats = prior.stats
    /\ toolOut = ToolNone
    /\ routed = RoutedNone
    /\ rec = [t \in Threads |-> RecIdle]
    /\ adding = AddIdle
    /\ srch = SrchIdle

NextRouter ==
    \/ \E query \in RouterQueries :
           stats.total_queries < MaxRouted /\ AnalyzeQueryCall(query)
    \/ \E domain \in DOMAIN InitialHitRates, found_results \in BOOLEAN :
           RecordRead(1, domain, found_results)
    \/ RecordWrite(1)

SpecRouter == InitRouter /\ [][NextRouter]_vars

(***************************************************************************)
(* The build script alone: ingest_directory on each of the directory       *)
(* listings explored.                                                      *)
(***************************************************************************)
NextBuild ==
    \/ \E files \in BuildDirectories : IngestDirectory(files)
    \/ BuilderSaveMetadata
    \/ BuilderSaveMetadataFails

SpecBuild == Init /\ [][NextBuild]_vars

(***************************************************************************)
(* record_rag_result called by several threads on the router singleton.    *)
(***************************************************************************)
NextRecord ==
    \/ \E t \in Threads, domain \in DOMAIN InitialHitRates, found_results \in BOOLEAN :
           RecordRead(t, domain, found_results)
    \/ \E t \in Threads : RecordWrite(t)

SpecRecord == Init /\ [][NextRecord]_vars

(***************************************************************************)
(* A thread that adds batches and a thread that searches, on the index     *)
(* that a completed build, or none, left.                                  *)
(***************************************************************************)
NextConcurrent ==
    \/ \E chunks \in Batches : AddDocumentsEncode(chunks)
    \/ AddDocumentsAppend
    \/ AddSaveMetadata
    \/ \E query \in Queries, n_results \in 0..MaxResults, min_relevance \in MinRelevances :
           SearchRank(query, n_results, min_relevance)
    \/ SearchCandidate
    \/ SearchReturn

SpecConcurrent == InitQuery /\ [][NextConcurrent]_vars

(***************************************************************************)
(* Properties.                                                             *)
(***************************************************************************)
\* a is an initial part of b
IsPrefix(a, b) ==
    Len(a) <= Len(b) /\ SubSeq(b, 1, Len(a)) = a

\* the last retriever call was a search that returned
SearchReturned ==
    ret.op = "search" /\ ret.outcome = "return"

\* the fields of a record of the metadata file
MetadataFields ==
    {"content", "source", "topic", "chunk_id", "word_count"}

\* C1: when an add_documents call has returned, the retriever holds as many
\* vectors as metadata records.
C1_LengthInvariant ==
    (ret.op = "add" /\ ret.outcome = "return") => Len(embeddings) = Len(metadata)

\* C2: the save is atomic: whenever no save is between its two writes, the
\* embeddings file holds as many rows as the metadata file holds records.
C2_SaveAtomic ==
    (addPc = "idle" /\ bPc = "idle") => Len(embFile.rows) = Len(metaFile.rows)

\* C3: arrays of different lengths are reported as index corruption and
\* never searched silently: a search returns results only on arrays of
\* equal lengths.
C3_CorruptionSurfaced ==
    SearchReturned => Len(embeddings) = Len(metadata)

\* C4: an add_documents call that ends with the provider's failure raises
\* it and leaves both arrays and both files as they were.
C4_ProviderFailureCommitsNothing ==
    [][(ret' # ret /\ ret'.op = "add" /\ ret'.error = "ProviderFailure")
          => (ret'.outcome = "raise" /\ UNCHANGED storeVars)]_vars

\* a provider failure was raised by an add on an index that holds records
\* and is saved
C4_Witness ==
    /\ ret = Raised("add", <<>>, "ProviderFailure")
    /\ Len(metadata) >= 1
    /\ metaFile.rows = metadata
    /\ embFile.rows = embeddings

C6_RecordFields ==
    \A i \in 1..Len(metaFile.rows) : DOMAIN metaFile.rows[i] = MetadataFields

\* C7: the query interface calls retriever.search only for a query that the
\* router's decision sends to the local index.
C7_SearchOnlyIfRouted ==
    toolOut.searched => toolOut.routing.use_rag

\* C8: the list search returns is non-increasing in relevance_score.
C8_RankOrdering ==
    SearchReturned =>
        \A i \in 1..(Len(ret.value) - 1) :
            ret.value[i].relevance_score >= ret.value[i + 1].relevance_score

\* a search returned two results of which the second has the higher
\* similarity: the keyword boost changed the order
C8_Witness ==
    /\ SearchReturned
    /\ Len(ret.value) >= 2
    /\ ret.value[1].semantic_score < ret.value[2].semantic_score
    /\ ret.value[1].relevance_score > ret.value[2].relevance_score

\* C9: every result search returns has 0 <= relevance_score <= 1.
C9_RelevanceBound ==
    SearchReturned =>
        \A i \in 1..Len(ret.value) :
            0 <= ret.value[i].relevance_score /\ ret.value[i].relevance_score <= 100

\* C10: a search for the empty string with the default min_relevance, when
\* it returns, returns the empty list.
C10_EmptyQueryEmptyResult ==
    (SearchReturned /\ ret.args[1] = Q_empty /\ ret.args[3] = DefaultMinRelevance)
        => ret.value = <<>>

\* the last analyze_query call classified the query with confidence >= 0.2
RoutedConfident ==
    routed.routing.confidence * 10 >= 2 * 3

\* C11: when analyze_query returns use_rag = True, the strategy is
\* rag_primary if the classified domain's hit rate at that moment is above
\* 0.75 and rag_hybrid otherwise, whichever domain it is.
C11_StrategyFollowsHitRate ==
    routed.routing.use_rag =>
        routed.routing.strategy =
            (IF RateLess(Rate(75), routed.routing.expected_hit_rate)
             THEN "rag_primary" ELSE "rag_hybrid")

\* C12: a query classified with confidence below 0.2 gets use_rag = False,
\* whatever the hit rates are.
C12_LowConfidenceNotRouted ==
    ~RoutedConfident => ~routed.routing.use_rag

\* a query without any domain keyword or marker was routed when the hit
\* rate of 'unknown' had grown to 0.3 or more, and was not sent to the index
C12_Witness ==
    /\ routed.query = Q_garden
    /\ routed.routing.domain = "unknown"
    /\ routed.routing.confidence = 0
    /\ ~RateLess(routed.routing.expected_hit_rate, Rate(30))
    /\ ~routed.routing.use_rag

\* C13: a query classified with confidence >= 0.2 into a domain whose hit
\* rate is below 0.3 at that moment gets use_rag = False.
C13_LowHitRateNotRouted ==
    (RoutedConfident /\ RateLess(routed.routing.expected_hit_rate, Rate(30)))
        => ~routed.routing.use_rag

\* a business query of full confidence and without markers was routed after
\* misses had taken the hit rate of 'business' below 0.3
C13_Witness ==
    /\ routed.query = Q_marketing
    /\ routed.routing.domain = "business"
    /\ routed.routing.confidence = 3
    /\ routed.routing.expected_hit_rate = hitRates["business"]
    /\ RateLess(hitRates["business"], Rate(30))
    /\ stats.rag_misses >= 17
    /\ ~routed.routing.use_rag

\* C14: a query of confidence >= 0.2, of a domain hit rate >= 0.3 and
\* without recency marker that is classified into ai_ml, technology,
\* business or software_dev gets use_rag = True, with or without a locality
\* marker.
C14_LocalityRuleSparesDomains ==
    (/\ RoutedConfident
     /\ ~RateLess(routed.routing.expected_hit_rate, Rate(30))
     /\ ~AnyIn(current_indicators, Lower(routed.query))
     /\ routed.routing.domain \in {"ai_ml", "technology", "business", "software_dev"})
        => routed.routing.use_rag

\* every domain's hit rate lies in [0.05, 0.95]
RatesInRange ==
    \A d \in DOMAIN hitRates :
        ~RateLess(hitRates[d], Rate(5)) /\ ~RateLess(Rate(95), hitRates[d])

\* C15: every hit rate lies in [0.05, 0.95], and a completed
\* record_rag_result(domain, found) has set the rate it found to
\* min(0.95, rate * 1.05) if found and to max(0.05, rate * 0.95) if not.
C15_HitRateRange ==
    /\ RatesInRange
    /\ \A t \in Threads :
           (rec[t].pc = "done" /\ rec[t].domain \in DOMAIN hitRates) =>
               LET before == rec[t].current_rate
                   up == RateTimes105(before)
                   down == RateTimes095(before)
               IN  hitRates[rec[t].domain] =
                       (IF rec[t].found
                        THEN (IF RateLess(up, Rate(95)) THEN up ELSE Rate(95))
                        ELSE (IF RateLess(Rate(5), down) THEN down ELSE Rate(5)))

\* a hit was recorded on a rate below the ceiling whose product by 1.05 is
\* above it, and the rate was set to 0.95
C15_Witness ==
    \E t \in Threads :
        /\ rec[t].pc = "done"
        /\ rec[t].found
        /\ RateLess(rec[t].current_rate, Rate(95))
        /\ RateLess(Rate(95), RateTimes105(rec[t].current_rate))
        /\ hitRates[rec[t].domain] = Rate(95)

\* C16: a completed record_rag_result(domain, True) leaves the rate
\* strictly above the rate it found, or at 0.95 if it found it there; a
\* completed record_rag_result(domain, False) leaves it strictly below, or
\* at 0.05 if it found it there.
C16_RecordMonotone ==
    \A t \in Threads :
        (rec[t].pc = "done" /\ rec[t].domain \in DOMAIN hitRates) =>
            LET before == rec[t].current_rate
                after == hitRates[rec[t].domain]
            IN  IF rec[t].found
                THEN IF before = Rate(95) THEN after = Rate(95)
                     ELSE RateLess(before, after)
                ELSE IF before = Rate(5) THEN after = Rate(5)
                     ELSE RateLess(after, before)

\* a miss was recorded on a rate at the floor, after misses had taken it
\* there, and the rate stayed at 0.05
C16_Witness ==
    \E t \in Threads :
        /\ rec[t].pc = "done"
        /\ ~rec[t].found
        /\ rec[t].current_rate = Rate(5)
        /\ hitRates[rec[t].domain] = Rate(5)
        /\ InitialHitRates[rec[t].domain] # Rate(5)

\* the rates that the calls of the threads T on domain d give when they
\* run one after another, in any order, from the rate r
RECURSIVE SerialRates(_, _, _)
SerialRates(d, r, T) ==
    IF T = {} THEN {r}
    ELSE UNION {SerialRates(d,
                            RecordedRates([InitialHitRates EXCEPT ![d] = r],
                                          d, rec[t].found)[d],
                            T \ {t}) : t \in T}

\* C20: when the record_rag_result calls that threads made on a domain have
\* all completed, the domain's hit rate is what these calls give when they
\* run one after another in some order.
C20_NoLostUpdate ==
    \A d \in DOMAIN hitRates :
        LET T == {t \in Threads : rec[t].pc # "idle" /\ rec[t].domain = d}
        IN  (\A t \in T : rec[t].pc = "done")
                => hitRates[d] \in SerialRates(d, InitialHitRates[d], T)

\* the files of the directory listings explored, and the words of each
BuildFiles ==
    UNION {Range(files) : files \in BuildDirectories}
FileWords ==
    [name \in {f.name : f \in BuildFiles} |->
        Split((CHOOSE f \in BuildFiles : f.name = name).text)]

\* the records of rows that come from the file of the name given
RowsOf(rows, name) ==
    SelectSeq(rows, LAMBDA c : c.source = name)

\* C17: the chunk with chunk_id k of a document is the window of at most
\* 500 words that starts at word k * 450 of the document's words; it has at
\* least 50 and at most 500 words, and a document yields as many chunks as
\* it has windows of at least 50 words.
C17_ChunkWindows ==
    \A i \in 1..Len(bMetadata) :
        LET c == bMetadata[i]
            words == FileWords[c.source]
            start == c.chunk_id * 450
            windows == {k \in 0..(Len(words) \div 450) :
                           Min(500, Len(words) - k * 450) >= 50}
        IN  /\ c.text = Join(SubSeq(words, start + 1, Min(start + 500, Len(words))))
            /\ Len(Split(c.text)) >= 50
            /\ Len(Split(c.text)) <= 500
            /\ Len(RowsOf(bMetadata, c.source)) = Cardinality(windows)

\* the build of the 1000-word document holds its third chunk: the 100
\* words from word 900 on
C17_Witness ==
    /\ bPc = "save_metadata"
    /\ \E i \in 1..Len(bMetadata) :
           /\ bMetadata[i].chunk_id = 2
           /\ Len(FileWords[bMetadata[i].source]) = 1000
           /\ Split(bMetadata[i].text) = [k \in 1..100 |-> NumWord(900 + k)]

\* C18: a document of N words yields exactly one chunk if and only if
\* 50 <= N <= 499, and none if N < 50; the single chunk holds all N words.
C18_SingleChunk ==
    \A i \in 1..Len(bMetadata) :
        LET name == bMetadata[i].source
            N == Len(FileWords[name])
            chunks == RowsOf(bMetadata, name)
        IN  /\ N >= 50
            /\ Len(chunks) = 1 <=> (50 <= N /\ N <= 499)
            /\ Len(chunks) = 1 => Split(chunks[1].text) = FileWords[name]

\* the build of the 499-word document holds one chunk
C18_Witness ==
    /\ bPc = "save_metadata"
    /\ Len(bMetadata) = 1
    /\ Len(FileWords[bMetadata[1].source]) = 499
    /\ Len(Split(bMetadata[1].text)) = 499

\* the records rows hold a chunk of each file of their directory that can
\* be read and has 50 words or more, and of no other file
BatchComplete(rows) ==
    \A files \in BuildDirectories :
        (rows # <<>> /\ \E j \in 1..Len(files) : files[j].name = rows[1].source)
            => \A j \in 1..Len(files) :
                   (files[j].readable /\ Len(FileWords[files[j].name]) >= 50)
                       <=> RowsOf(rows, files[j].name) # <<>>

\* C19: a file whose extraction fails is skipped and the run goes on: the
\* build embeds and saves the chunks of every other file of the batch,
\* before and after the failing one.
C19_FailingFileSkipped ==
    /\ BatchComplete(bMetadata)
    /\ BatchComplete(metaFile.rows)
    /\ bPc = "save_metadata"
           => (Len(bEmbeddings) = Len(bMetadata) /\ embFile = FileOf(bEmbeddings))

\* a build of the batch has saved the chunks of the files before, between
\* and after the two files that fail
C19_Witness ==
    /\ bPc = "idle"
    /\ metaFile.exists
    /\ Len(embFile.rows) = 3
    /\ [i \in 1..Len(metaFile.rows) |-> metaFile.rows[i].source]
           = <<BatchDirectory[1].name, BatchDirectory[4].name, BatchDirectory[6].name>>
    /\ ~BatchDirectory[2].readable /\ ~BatchDirectory[5].readable


\* C21: a search that runs beside an add_documents call returns what a
\* search returns on an index the store held, between adds, while the
\* search ran: the index before the add or the index after it, each vector
\* paired with the record of its own chunk.
C21_SearchSeesSnapshot ==
    (SearchReturned /\ srch.pc = "done") =>
        \E index \in srch.snapshots :
            ret.value \in SearchReturns(ret.args[1], ret.args[2], ret.args[3],
                                        index.emb, index.meta)

C23_Deterministic ==
    SearchReturned =>
        /\ \A i, j \in 1..Len(ret.value) :
               (i < j /\ ret.value[i].relevance_score = ret.value[j].relevance_score)
                   => ret.value[i].semantic_score >= ret.value[j].semantic_score
        /\ (\A i, j \in 1..Len(embeddings) :
                i # j => CosSim(Embed(ret.args[1]), embeddings[i])
                             # CosSim(Embed(ret.args[1]), embeddings[j]))
               => SearchReturns(ret.args[1], ret.args[2], ret.args[3],
                                embeddings, metadata) = {ret.value}

\* a search returned two results of equal relevance_score and different
\* similarity
C23_Witness ==
    /\ SearchReturned
    /\ Len(ret.value) >= 2
    /\ ret.value[1].relevance_score = ret.value[2].relevance_score
    /\ ret.value[1].semantic_score > ret.value[2].semantic_score

\* C24: every result search returns has keyword_score = min(0.2, 0.05 * m),
\* m being the number of lower-cased query terms found in the text of its
\* chunk, and relevance_score = min(1.0, semantic_score + keyword_score).
C24_ScoreFormula ==
    SearchReturned =>
        \A i \in 1..Len(ret.value) :
            LET r == ret.value[i]
                chunk_text == IF "content" \in DOMAIN r THEN r.content ELSE r.text
                m == KeywordMatches(ret.args[1], Lower(chunk_text))
            IN  /\ r.keyword_score = Min(20, 5 * m)
                /\ r.relevance_score = Min(100, r.semantic_score + r.keyword_score)

\* C25: min_relevance is compared with the raw similarity, before the
\* boost: every result search returns has semantic_score >= min_relevance
\* and is the result of a position whose vector has a similarity of
\* min_relevance or more.
C25_FloorOnRawSimilarity ==
    SearchReturned =>
        LET sims == Similarities(ret.args[1], embeddings)
        IN  \A i \in 1..Len(ret.value) :
                /\ ret.value[i].semantic_score >= ret.args[3]
                /\ \E idx \in 1..Min(Len(embeddings), Len(metadata)) :
                       /\ sims[idx] >= ret.args[3]
                       /\ ret.value[i] = ResultOf(ret.args[1], metadata, idx, sims[idx])

\* a search over every position returned without a chunk whose similarity
\* is below min_relevance and whose boosted score is not
C25_Witness ==
    /\ SearchReturned
    /\ Len(embeddings) = Len(metadata)
    /\ Len(embeddings) <= 2 * ret.args[2]
    /\ ret.args[2] >= 1
    /\ \E idx \in 1..Len(metadata) :
           LET sim == Similarities(ret.args[1], embeddings)[idx]
               r == ResultOf(ret.args[1], metadata, idx, sim)
           IN  /\ sim < ret.args[3]
               /\ r.relevance_score >= ret.args[3]
               /\ \A i \in 1..Len(ret.value) : ret.value[i] # r

\* C26: the topic of every chunk a build saves is the first topic, in the
\* order Artificial Intelligence, Technology, Business, Health, Education,
\* one of whose keywords occurs in the lower-cased file name plus the first
\* 500 characters of the chunk text, and "General" if there is none; a
\* chunk with "machine learning" in its first 500 characters is labelled
\* Artificial Intelligence.
C26_TopicInference ==
    \A i \in 1..Len(metaFile.rows) :
        LET r == metaFile.rows[i]
            text == Lower(r.source \o <<" ">> \o Take(r.text, 500))
            matching == {t \in 1..Len(InferTopics) :
                            \E k \in 1..Len(InferTopics[t].keywords) :
                                Contains(text, InferTopics[t].keywords[k])}
        IN  /\ matching = {} => r.topic = S_General
            /\ \A t \in matching :
                   (\A u \in matching : t <= u) => r.topic = InferTopics[t].topic
            /\ Contains(Take(r.text, 500), InferTopics[1].keywords[3])
                   => r.topic = InferTopics[1].topic

\* a build saved a chunk that holds "machine learning" and is labelled
\* Artificial Intelligence though the keyword "learning" of Education
\* occurs in it too
C26_Witness ==
    \E i \in 1..Len(metaFile.rows) :
        /\ Contains(Take(metaFile.rows[i].text, 500), InferTopics[1].keywords[3])
        /\ Contains(Lower(Take(metaFile.rows[i].text, 500)), InferTopics[5].keywords[2])
        /\ metaFile.rows[i].topic = InferTopics[1].topic

\* for each query explored, the number of keywords of each domain (in the
\* order of domain_keywords) that occur in the lower-cased query
KeywordCounts ==
    [query \in Queries \cup RouterQueries |->
        [i \in 1..Len(Domains) |-> DomainScore(Domains[i], Lower(query))]]

\* C27: analyze_query classifies a query into the domain with the most
\* keywords occurring in the lower-cased query, the domain configured first
\* among those of equal count, with confidence min(1.0, count / 3); with no
\* keyword of any domain it gives "unknown" and 0.0; so the domain is
\* "unknown" exactly when the confidence is below 0.2.
C27_Classification ==
    LET counts == KeywordCounts[routed.query]
        domain == routed.routing.domain
        confidence == routed.routing.confidence
    IN  /\ (\A i \in 1..Len(Domains) : counts[i] = 0)
               => (domain = "unknown" /\ confidence = 0)
        /\ (\E i \in 1..Len(Domains) : counts[i] > 0)
               => \E b \in 1..Len(Domains) :
                      /\ domain = Domains[b]
                      /\ \A j \in 1..Len(Domains) : counts[j] <= counts[b]
                      /\ \A j \in 1..(b - 1) : counts[j] < counts[b]
                      /\ confidence = Min(3, counts[b])
        /\ (domain = "unknown") <=> (confidence * 10 < 2 * 3)

\* a query was classified for which two domains have the same, highest
\* count
C27_Witness ==
    LET counts == KeywordCounts[routed.query]
    IN  \E i, j \in 1..Len(Domains) :
            /\ i < j
            /\ counts[i] > 0
            /\ counts[i] = counts[j]
            /\ \A k \in 1..Len(Domains) : counts[k] <= counts[i]
            /\ routed.routing.domain = Domains[i]

\* C28: search returns at most n_results results, each the result of a
\* position that fewer than 2 * n_results vectors exceed in similarity: a
\* chunk outside the top 2 * n_results by raw similarity is never returned.
C28_CandidateSet ==
    SearchReturned =>
        LET sims == Similarities(ret.args[1], embeddings)
        IN  /\ Len(ret.value) <= ret.args[2]
            /\ \A i \in 1..Len(ret.value) :
                   \E idx \in 1..Min(Len(embeddings), Len(metadata)) :
                       /\ ret.value[i] = ResultOf(ret.args[1], metadata, idx, sims[idx])
                       /\ Cardinality({k \in 1..Len(embeddings) : sims[k] > sims[idx]})
                              < 2 * ret.args[2]

\* a search returned n_results results and left out a chunk that is outside
\* the candidates, passes min_relevance, and has a higher boosted score
\* than a result returned
C28_Witness ==
    /\ SearchReturned
    /\ Len(embeddings) = Len(metadata)
    /\ ret.args[2] >= 1
    /\ Len(ret.value) = ret.args[2]
    /\ LET sims == Similarities(ret.args[1], embeddings)
       IN  \E idx \in 1..Len(metadata) :
               /\ Cardinality({k \in 1..Len(embeddings) : sims[k] > sims[idx]})
                      >= 2 * ret.args[2]
               /\ sims[idx] >= ret.args[3]
               /\ ResultOf(ret.args[1], metadata, idx, sims[idx]).relevance_score
                      > ret.value[1].relevance_score

\* C29: for a document of 50 words or more that a build chunks, every word
\* position is in a chunk; only the last window can be missing, and then it
\* has fewer than 50 words, all of them among the last 50 words of the last
\* chunk.
C29_NoWordLost ==
    \A i \in 1..Len(bMetadata) :
        LET name == bMetadata[i].source
            words == FileWords[name]
            N == Len(words)
            rows == RowsOf(bMetadata, name)
            windows == (N + 449) \div 450
            start(j) == rows[j].chunk_id * 450
            size(j) == Len(Split(rows[j].text))
            exact == {j \in 1..Len(rows) :
                         Split(rows[j].text)
                             = SubSeq(words, start(j) + 1, start(j) + size(j))}
            covered == UNION {(start(j) + 1)..(start(j) + size(j)) : j \in exact}
        IN  N >= 50 =>
                /\ (1..N) \subseteq covered
                /\ Len(rows) \in {windows - 1, windows}
                /\ Len(rows) = windows - 1
                       => /\ N - 450 * (windows - 1) < 50
                          /\ start(Len(rows)) + size(Len(rows)) = N
                          /\ 450 * (windows - 1) >= N - 50

\* the build of the 949-word document holds two chunks: the window from
\* word 900 on, of 49 words, is missing
C29_Witness ==
    /\ bPc = "save_metadata"
    /\ Len(bMetadata) = 2
    /\ Len(FileWords[bMetadata[1].source]) = 949
    /\ Len(Split(bMetadata[2].text)) = 499

\* C30: a call of rag_retrieval_tool whose search returns records one
\* outcome in the router: a hit if the result list is non-empty and a miss
\* if it is empty, for the domain the router classified the query into; a
\* call on an index without records, or one whose search raises, records
\* nothing and leaves every hit rate as it was.
C30_OneOutcomePerSearch ==
    [][stats'.total_queries # stats.total_queries =>
          LET found == Len(toolOut'.results) > 0
              domain == AnalyzeQuery(hitRates, toolOut'.query).domain
          IN  /\ toolOut'.kind \in {"empty", "error", "no_results", "results"}
              /\ toolOut'.kind = "empty" <=> Len(metadata) = 0
              /\ toolOut'.kind = "empty" => ret' = ret
              /\ toolOut'.kind = "error"
                     <=> (Len(metadata) > 0 /\ ret'.op = "search" /\ ret'.outcome = "raise")
              /\ toolOut'.kind \in {"no_results", "results"}
                     <=> (Len(metadata) > 0 /\ ret'.op = "search" /\ ret'.outcome = "return")
              /\ toolOut'.kind \in {"no_results", "results"}
                     => /\ toolOut'.results = ret'.value
                        /\ toolOut'.kind = "results" <=> found
                        /\ stats'.rag_hits = stats.rag_hits + (IF found THEN 1 ELSE 0)
                        /\ stats'.rag_misses = stats.rag_misses + (IF found THEN 0 ELSE 1)
                        /\ hitRates' = RecordedRates(hitRates, domain, found)
              /\ toolOut'.kind \in {"empty", "error"}
                     => /\ stats'.rag_hits = stats.rag_hits
                        /\ stats'.rag_misses = stats.rag_misses
                        /\ hitRates' = hitRates]_vars

\* after a search that failed, a call found nothing for a query of the
\* domain "unknown": one miss is counted and only the hit rate of "unknown"
\* has gone down
C30_Witness ==
    /\ toolOut.kind = "no_results"
    /\ stats.total_queries = 2
    /\ stats.rag_hits = 0
    /\ stats.rag_misses = 1
    /\ toolOut.routing.domain = "unknown"
    /\ RateLess(hitRates["unknown"], InitialHitRates["unknown"])
    /\ \A d \in DOMAIN hitRates \ {"unknown"} : hitRates[d] = InitialHitRates[d]

====
